---- MODULE Spec2Model ----
(***************************************************************************)
(* ScanChIP-P (bin/ScanChIPP_f2.py): sliding-window feature extraction     *)
(* over the diagonal of a contact matrix, the k-distance / elbow           *)
(* estimate of the DBSCAN radius, and the two TAD quality scores.          *)
(*                                                                         *)
(* Conventions.  Python indices are 0-based and kept so for the matrix;    *)
(* Python lists are TLA+ sequences (1-based).  A k-distance is the         *)
(* Euclidean norm sqrt(r) of an integer vector; it is stored as its        *)
(* radicand r and compared exactly.  A float quotient n/d is stored as     *)
(* the fraction <<n, d>> in lowest terms with d > 0.  The outcome of a     *)
(* call is a record: Ret(v), Raise(exception name) or NotCalled.           *)
(***************************************************************************)
EXTENDS Integers, Sequences, FiniteSets, TLC

VARIABLES entry, pc, err, matrix, windowproportion, window_length,
          diag, i, j, features, k_distances, elbow, eps,
          tad_1, tad_2, result, result2

vars == <<entry, pc, err, matrix, windowproportion, window_length,
          diag, i, j, features, k_distances, elbow, eps,
          tad_1, tad_2, result, result2>>

featVars == <<matrix, windowproportion, window_length, diag, i, j, features>>
elbowVars == <<k_distances, elbow, eps>>
qualVars == <<tad_1, tad_2, result, result2>>

\* ---------------------------------------------------------------- bounds
MaxN == 5
MaxSq == 3
MaxLen == 4
MaxFeatLen == 4
MaxB == 3
MaxBin == 3

\* ------------------------------------------------------- call outcomes
NotCalled == [tag |-> "none"]
Ret(v) == [tag |-> "return", val |-> v]
Raise(e) == [tag |-> "raise", exc |-> e]

\* ----------------------------------------------------------- arithmetic
Abs(x) == IF x < 0 THEN -x ELSE x

Max2(x, y) == IF x >= y THEN x ELSE y

Min2(x, y) == IF x <= y THEN x ELSE y

RECURSIVE GCD(_, _)
GCD(a, b) == IF b = 0 THEN a ELSE GCD(b, a % b)

\* Python's a // b for b # 0 (floor division, also for a negative divisor)
FloorDiv(a, b) == IF b > 0 THEN a \div b ELSE (0 - a) \div (0 - b)

\* Python's float n / d for d # 0, as a fraction in lowest terms
Frac(n, d) ==
  LET s == IF d < 0 THEN -1 ELSE 1
      g == GCD(Abs(n), Abs(d))
  IN <<(s * n) \div g, (s * d) \div g>>

\* sqrt(p) - sqrt(q) < z, for naturals p, q and an integer z
SqrtDiffLess(p, q, z) ==
  IF z = 0 THEN p < q
  ELSE IF z > 0
    THEN IF p <= q THEN TRUE
         ELSE LET t == p - q - z * z
              IN IF t < 0 THEN TRUE ELSE t * t < 4 * z * z * q
    ELSE IF q <= p THEN FALSE
         ELSE LET t == q - p - z * z
              IN IF t <= 0 THEN FALSE ELSE t * t > 4 * z * z * p

\* (sqrt(a) - sqrt(b))^2 < (sqrt(c) - sqrt(d))^2 : the float comparison of
\* two distortions whose k-distances have the radicands a, b and c, d
DistortionLess(a, b, c, d) ==
  LET hi1 == Max2(a, b)
      lo1 == Min2(a, b)
      hi2 == Max2(c, d)
      lo2 == Min2(c, d)
  IN SqrtDiffLess(4 * hi1 * lo2, 4 * hi2 * lo1, (hi2 + lo1) - (hi1 + lo2))

\* ------------------------------------------------------ contact matrix
\* len(matrix)
NRows(m) == Cardinality(DOMAIN m)

NoMatrix == [r \in {} |-> 0]

\* numpy's matrix[r, c]: a negative index counts from the far end, an
\* index outside [-N, N) raises IndexError
NpInRange(m, k) == (0 - NRows(m)) <= k /\ k < NRows(m)

NpIndex(m, k) == IF k < 0 THEN k + NRows(m) ELSE k

NpGet(m, r, c) == m[NpIndex(m, r)][NpIndex(m, c)]

\* the contact matrices supplied: the zero matrix, the diagonal matrix and
\* every matrix with a single non-zero cell
Indicator(n, r0, c0) ==
  [r \in 0..(n - 1) |-> [c \in 0..(n - 1) |-> IF r = r0 /\ c = c0 THEN 1 ELSE 0]]

Matrices(n) ==
  {Indicator(n, r0, c0) : r0 \in 0..(n - 1), c0 \in 0..(n - 1)}
    \cup {[r \in 0..(n - 1) |-> [c \in 0..(n - 1) |-> 0]],
          [r \in 0..(n - 1) |-> [c \in 0..(n - 1) |-> IF r = c THEN 1 ELSE 0]]}

\* -------------------------------------------------- create_feature_data
\* window = window_length + diag
WindowEnd(wl, d) == wl + d

\* if (window > len(matrix))
OutOfBoundsGe(window, n) == window >= n

OutOfBounds(window, n) == window > n

\* range(0, window_length) of the backward loops, as <<start, stop>>
BackwardLoopFromOne(wl) == <<1, wl>>

BackwardLoop(wl) == <<0, wl>>

\* range(diag, window) of the forward loops, as <<start, stop>>
ForwardLoop(d, window) == <<d, window>>

\* matrix[diag - i, diag - j]
BackwardCell(d, ii, jj) == <<d - ii, d - jj>>

\* matrix[i, j]
ForwardCell(ii, jj) == <<ii, jj>>

\* features = []; for diag in range(0, len(matrix)):
CfdCall ==
  /\ pc = "cfd_call"
  /\ features' = <<>>
  /\ diag' = 0
  /\ pc' = "cfd_diag"
  /\ UNCHANGED <<entry, err, matrix, windowproportion, window_length, i, j>>
  /\ UNCHANGED elbowVars
  /\ UNCHANGED qualVars

\* one pass through the head of the diag loop: leave the loop, or compute
\* window and enter the backward or the forward pair of loops
CfdDiag ==
  /\ pc = "cfd_diag"
  /\ LET n == NRows(matrix)
         window == WindowEnd(window_length, diag)
         bl == BackwardLoop(window_length)
         fl == ForwardLoop(diag, window)
     IN IF diag >= n
          THEN /\ pc' = "cfd_return"
               /\ UNCHANGED <<diag, i, j>>
          ELSE IF OutOfBounds(window, n)
            THEN IF bl[1] < bl[2]
                   THEN /\ pc' = "cfd_back"
                        /\ i' = bl[1]
                        /\ j' = bl[1]
                        /\ UNCHANGED diag
                   ELSE /\ pc' = "cfd_diag"
                        /\ diag' = diag + 1
                        /\ UNCHANGED <<i, j>>
            ELSE IF fl[1] < fl[2]
                   THEN /\ pc' = "cfd_fwd"
                        /\ i' = fl[1]
                        /\ j' = fl[1]
                        /\ UNCHANGED diag
                   ELSE /\ pc' = "cfd_diag"
                        /\ diag' = diag + 1
                        /\ UNCHANGED <<i, j>>
  /\ UNCHANGED <<entry, err, matrix, windowproportion, window_length, features>>
  /\ UNCHANGED elbowVars
  /\ UNCHANGED qualVars

\* backward branch, one append: i is the outer loop, j the inner loop
CfdBack ==
  /\ pc = "cfd_back"
  /\ LET bl == BackwardLoop(window_length)
         cell == BackwardCell(diag, i, j)
     IN IF ~(NpInRange(matrix, cell[1]) /\ NpInRange(matrix, cell[2]))
          THEN /\ pc' = "raised"
               /\ err' = "IndexError"
               /\ UNCHANGED <<diag, i, j, features>>
          ELSE /\ features' = Append(features, NpGet(matrix, cell[1], cell[2]))
               /\ err' = err
               /\ IF j + 1 < bl[2]
                    THEN /\ j' = j + 1
                         /\ UNCHANGED <<i, diag, pc>>
                    ELSE IF i + 1 < bl[2]
                      THEN /\ i' = i + 1
                           /\ j' = bl[1]
                           /\ UNCHANGED <<diag, pc>>
                      ELSE /\ diag' = diag + 1
                           /\ pc' = "cfd_diag"
                           /\ UNCHANGED <<i, j>>
  /\ UNCHANGED <<entry, matrix, windowproportion, window_length>>
  /\ UNCHANGED elbowVars
  /\ UNCHANGED qualVars

\* forward branch, one append: j is the outer loop, i the inner loop
CfdFwd ==
  /\ pc = "cfd_fwd"
  /\ LET fl == ForwardLoop(diag, WindowEnd(window_length, diag))
         cell == ForwardCell(i, j)
     IN IF ~(NpInRange(matrix, cell[1]) /\ NpInRange(matrix, cell[2]))
          THEN /\ pc' = "raised"
               /\ err' = "IndexError"
               /\ UNCHANGED <<diag, i, j, features>>
          ELSE /\ features' = Append(features, NpGet(matrix, cell[1], cell[2]))
               /\ err' = err
               /\ IF i + 1 < fl[2]
                    THEN /\ i' = i + 1
                         /\ UNCHANGED <<j, diag, pc>>
                    ELSE IF j + 1 < fl[2]
                      THEN /\ j' = j + 1
                           /\ i' = fl[1]
                           /\ UNCHANGED <<diag, pc>>
                      ELSE /\ diag' = diag + 1
                           /\ pc' = "cfd_diag"
                           /\ UNCHANGED <<i, j>>
  /\ UNCHANGED <<entry, matrix, windowproportion, window_length>>
  /\ UNCHANGED elbowVars
  /\ UNCHANGED qualVars

\* return features: back in main, or the end of a direct call
CfdReturn ==
  /\ pc = "cfd_return"
  /\ pc' = IF entry = "main" THEN "k_distance" ELSE "done"
  /\ UNCHANGED <<entry, err>>
  /\ UNCHANGED featVars
  /\ UNCHANGED elbowVars
  /\ UNCHANGED qualVars

\* ------------------------------------------------------------ k_distance
\* the radicand of np.linalg.norm(window_data[:-1] - window_data[1:])
RECURSIVE SumSqDiff(_, _)
SumSqDiff(w, t) ==
  IF t >= Len(w) THEN 0
  ELSE (w[t] - w[t + 1]) * (w[t] - w[t + 1]) + SumSqDiff(w, t + 1)

\* features[start_idx:end_idx]
Slice(s, start, end) == SubSeq(s, start + 1, Min2(end, Len(s)))

\* window_idx * 2 * window_length
StartIdx(window_idx, wl) == window_idx * 2 * wl

\* the list k_distances built by the loop over range(num_windows)
KDistances(f, wl) ==
  LET num_windows == FloorDiv(Len(f), 2 * wl)
  IN [n \in 1..num_windows |->
        LET start_idx == StartIdx(n - 1, wl)
            end_idx == start_idx + 2 * wl
        IN SumSqDiff(Slice(f, start_idx, end_idx), 1)]

\* k_distance up to the call of find_elbow_point; 2 * window_length = 0
\* makes the floor division raise
KDistance ==
  /\ pc = "k_distance"
  /\ IF 2 * window_length = 0
       THEN /\ pc' = "raised"
            /\ err' = "ZeroDivisionError"
            /\ UNCHANGED k_distances
       ELSE /\ k_distances' = KDistances(features, window_length)
            /\ pc' = "find_elbow_point"
            /\ err' = err
  /\ UNCHANGED <<entry, elbow, eps>>
  /\ UNCHANGED featVars
  /\ UNCHANGED qualVars

\* ------------------------------------------------------ find_elbow_point
\* distortions: entry t holds the radicands of k_distances[i] and
\* k_distances[i - 1] for i = t (Python index), its value being
\* (sqrt(first) - sqrt(second))^2
Distortions(k) == [t \in 1..(Len(k) - 1) |-> <<k[t + 1], k[t]>>]

DistLess(x, y) == DistortionLess(x[1], x[2], y[1], y[2])

DistEq(x, y) == ~DistLess(x, y) /\ ~DistLess(y, x)

\* max(distortions) of a non-empty list: the first maximal element
RECURSIVE PyMaxFrom(_, _, _)
PyMaxFrom(s, t, m) ==
  IF t > Len(s) THEN m
  ELSE PyMaxFrom(s, t + 1, IF DistLess(m, s[t]) THEN s[t] ELSE m)

PyMax(s) == PyMaxFrom(s, 2, s[1])

\* distortions.index(m): the Python index of the first element equal to m
ListIndexLast(s, m) ==
  (CHOOSE t \in 1..Len(s) :
     DistEq(s[t], m) /\ \A u \in (t + 1)..Len(s) : ~DistEq(s[u], m)) - 1

ListIndex(s, m) ==
  (CHOOSE t \in 1..Len(s) :
     DistEq(s[t], m) /\ \A u \in 1..(t - 1) : ~DistEq(s[u], m)) - 1

find_elbow_point(k) ==
  LET distortions == Distortions(k)
  IN IF Len(distortions) = 0
       THEN Raise("ValueError")
       ELSE Ret(ListIndex(distortions, PyMax(distortions)) + 1)

FindElbowPoint ==
  /\ pc = "find_elbow_point"
  /\ LET r == find_elbow_point(k_distances)
     IN /\ elbow' = r
        /\ IF r.tag = "raise"
             THEN /\ pc' = "raised"
                  /\ err' = r.exc
             ELSE /\ pc' = IF entry = "main" THEN "dbscan" ELSE "done"
                  /\ err' = err
  /\ UNCHANGED <<entry, k_distances, eps>>
  /\ UNCHANGED featVars
  /\ UNCHANGED qualVars

\* ------------------------------------------------------------------ main
\* parse_arguments: print('Creating window:', 1 / args.windowproportion)
MainParse ==
  /\ pc = "main_parse"
  /\ IF windowproportion = 0
       THEN /\ pc' = "raised"
            /\ err' = "ZeroDivisionError"
       ELSE /\ pc' = "main_window"
            /\ err' = err
  /\ UNCHANGED entry
  /\ UNCHANGED featVars
  /\ UNCHANGED elbowVars
  /\ UNCHANGED qualVars

\* window_length = len(data) // args.windowproportion, then the call of
\* create_feature_data(data, window_length)
MainWindow ==
  /\ pc = "main_window"
  /\ window_length' = FloorDiv(NRows(matrix), windowproportion)
  /\ pc' = "cfd_call"
  /\ UNCHANGED <<entry, err, matrix, windowproportion, diag, i, j, features>>
  /\ UNCHANGED elbowVars
  /\ UNCHANGED qualVars

\* DBSCAN(eps=k_distance(features, window_length), ...).fit(data)
Dbscan ==
  /\ pc = "dbscan"
  /\ eps' = elbow.val
  /\ pc' = "done"
  /\ UNCHANGED <<entry, err, k_distances, elbow>>
  /\ UNCHANGED featVars
  /\ UNCHANGED qualVars

\* ------------------------------------------------ modified_jaccard_index
\* range(-1, 2)
OffsetsShort == {-1, 0}

Offsets == {-1, 0, 1}

\* the body of the offset loop for one shifted_boundary; st is
\* <<intersecting_set, double_counted_boundaries>>
JaccardVisit(st, shifted_boundary, t2) ==
  IF shifted_boundary \in t2 /\ shifted_boundary \notin st[2]
    THEN <<st[1] \cup {shifted_boundary}, st[2] \cup {shifted_boundary}>>
    ELSE st

\* for offset in range(-1, 2), in increasing order
RECURSIVE JaccardOffsets(_, _, _, _)
JaccardOffsets(st, boundary, todo, t2) ==
  IF todo = {} THEN st
  ELSE LET offset == CHOOSE o \in todo : \A o2 \in todo : o <= o2
       IN JaccardOffsets(JaccardVisit(st, boundary + offset, t2), boundary,
                         todo \ {offset}, t2)

\* for boundary in tad_1 (the result does not depend on the iteration order
\* of the set; the loop is run in increasing order)
RECURSIVE JaccardBoundaries(_, _, _)
JaccardBoundaries(st, todo, t2) ==
  IF todo = {} THEN st
  ELSE LET boundary == CHOOSE b \in todo : \A b2 \in todo : b <= b2
       IN JaccardBoundaries(JaccardOffsets(st, boundary, Offsets, t2),
                            todo \ {boundary}, t2)

\* the plain Jaccard index |t1 & t2| / |t1 | t2|
symmetric_jaccard_index(t1, t2) ==
  IF t1 \cup t2 = {} THEN <<0, 1>>
  ELSE Frac(Cardinality(t1 \cap t2), Cardinality(t1 \cup t2))

modified_jaccard_index(t1, t2) ==
  LET st == JaccardBoundaries(<<{}, {}>>, t1, t2)
      intersecting_set == st[1]
      union_size == Cardinality(t1) + Cardinality(t2) - Cardinality(intersecting_set)
  IN IF union_size # 0
       THEN Frac(Cardinality(intersecting_set), union_size)
       ELSE <<0, 1>>

\* modified_jaccard_index(tad_1, tad_2)
JaccardCall ==
  /\ pc = "jaccard"
  /\ result' = Ret(modified_jaccard_index(tad_1, tad_2))
  /\ pc' = "jaccard_swapped"
  /\ UNCHANGED <<entry, err, tad_1, tad_2, result2>>
  /\ UNCHANGED featVars
  /\ UNCHANGED elbowVars

\* modified_jaccard_index(tad_2, tad_1): the same call, arguments swapped
JaccardSwapped ==
  /\ pc = "jaccard_swapped"
  /\ result2' = Ret(modified_jaccard_index(tad_2, tad_1))
  /\ pc' = "done"
  /\ UNCHANGED <<entry, err, tad_1, tad_2, result>>
  /\ UNCHANGED featVars
  /\ UNCHANGED elbowVars

\* ------------------------------------------------ measure_of_concordance
\* the names bound at module level when measure_of_concordance runs
Globals ==
  {"DBSCAN", "pd", "np", "argparse", "os", "plt", "main",
   "create_feature_data", "k_distance", "find_elbow_point", "min_pnts",
   "generate_tad", "measure_of_concordance", "modified_jaccard_index",
   "length_quality", "amount_identified_quality", "interaction_quality",
   "setup_parser", "parse_arguments"}

\* the first pass through the loop body evaluates set(B[j]); with no pass
\* sum_term stays 0 and moc = (1 / (n_tad_1 * n_tad_2 - 1)) * 0
measure_of_concordance(t1, t2) ==
  LET n_tad_1 == Len(t1)
      n_tad_2 == Len(t2)
  IN IF n_tad_1 > 0 /\ n_tad_2 > 0
       THEN IF "B" \notin Globals
              THEN Raise("NameError")
              ELSE Raise("TypeError")
       ELSE IF n_tad_1 * n_tad_2 - 1 = 0
              THEN Raise("ZeroDivisionError")
              ELSE Ret(Frac(0, n_tad_1 * n_tad_2 - 1))

\* measure_of_concordance(tad_1, tad_2)
MocCall ==
  /\ pc = "moc"
  /\ result' = measure_of_concordance(tad_1, tad_2)
  /\ pc' = "moc_again"
  /\ UNCHANGED <<entry, err, tad_1, tad_2, result2>>
  /\ UNCHANGED featVars
  /\ UNCHANGED elbowVars

\* the same call a second time
MocAgain ==
  /\ pc = "moc_again"
  /\ result2' = measure_of_concordance(tad_1, tad_2)
  /\ pc' = "done"
  /\ UNCHANGED <<entry, err, tad_1, tad_2, result>>
  /\ UNCHANGED featVars
  /\ UNCHANGED elbowVars

\* ----------------------------------------------------------------- inputs
SeqsUpTo(S, n) == UNION {[1..m -> S] : m \in 0..n}

\* boundary sets
Boundaries == 0..MaxB

ExampleSet1 == {10, 20, 30}

ExampleSet2 == {11, 20, 31}

\* a TAD is the list of its bins, a contiguous block
TADs == {[t \in 1..(b - a + 1) |-> a + t - 1] : a \in 1..MaxBin, b \in 1..MaxBin} \ {<<>>}

TADSets == SeqsUpTo(TADs, 2)

ExampleTADSet == <<(<<1, 2, 3>>), (<<4, 5, 6>>)>>

\* python ScanChIPP_f2.py -i <matrix> -w <windowproportion>
InitMain ==
  /\ entry = "main"
  /\ pc = "main_parse"
  /\ err = "none"
  /\ \E n \in 1..MaxN :
       /\ matrix \in Matrices(n)
       /\ windowproportion \in (0 - 1)..(n + 1)
  /\ window_length = 0
  /\ diag = 0
  /\ i = 0
  /\ j = 0
  /\ features = <<>>
  /\ k_distances = <<>>
  /\ elbow = NotCalled
  /\ eps = 0
  /\ tad_1 = {}
  /\ tad_2 = {}
  /\ result = NotCalled
  /\ result2 = NotCalled

\* create_feature_data(matrix, window_length)
InitFeatures ==
  /\ entry = "create_feature_data"
  /\ pc = "cfd_call"
  /\ err = "none"
  /\ \E n \in 1..MaxN :
       /\ matrix \in Matrices(n)
       /\ window_length \in (0 - n)..n
  /\ windowproportion = 0
  /\ diag = 0
  /\ i = 0
  /\ j = 0
  /\ features = <<>>
  /\ k_distances = <<>>
  /\ elbow = NotCalled
  /\ eps = 0
  /\ tad_1 = {}
  /\ tad_2 = {}
  /\ result = NotCalled
  /\ result2 = NotCalled

\* k_distance(features, window_length)
InitKDistance ==
  /\ entry = "k_distance"
  /\ pc = "k_distance"
  /\ err = "none"
  /\ matrix = NoMatrix
  /\ windowproportion = 0
  /\ window_length \in (0 - 1)..MaxFeatLen
  /\ diag = 0
  /\ i = 0
  /\ j = 0
  /\ features \in SeqsUpTo({0, 1}, MaxFeatLen)
  /\ k_distances = <<>>
  /\ elbow = NotCalled
  /\ eps = 0
  /\ tad_1 = {}
  /\ tad_2 = {}
  /\ result = NotCalled
  /\ result2 = NotCalled

\* find_elbow_point(k_distances), the k-distances sqrt(0) .. sqrt(MaxSq)
InitElbow ==
  /\ entry = "find_elbow_point"
  /\ pc = "find_elbow_point"
  /\ err = "none"
  /\ matrix = NoMatrix
  /\ windowproportion = 0
  /\ window_length = 0
  /\ diag = 0
  /\ i = 0
  /\ j = 0
  /\ features = <<>>
  /\ k_distances \in SeqsUpTo(0..MaxSq, MaxLen)
  /\ elbow = NotCalled
  /\ eps = 0
  /\ tad_1 = {}
  /\ tad_2 = {}
  /\ result = NotCalled
  /\ result2 = NotCalled

\* modified_jaccard_index(tad_1, tad_2)
InitJaccard ==
  /\ entry = "modified_jaccard_index"
  /\ pc = "jaccard"
  /\ err = "none"
  /\ matrix = NoMatrix
  /\ windowproportion = 0
  /\ window_length = 0
  /\ diag = 0
  /\ i = 0
  /\ j = 0
  /\ features = <<>>
  /\ k_distances = <<>>
  /\ elbow = NotCalled
  /\ eps = 0
  /\ \/ /\ tad_1 \in SUBSET Boundaries
        /\ tad_2 \in SUBSET Boundaries
     \/ /\ tad_1 = ExampleSet1
        /\ tad_2 = ExampleSet2
  /\ result = NotCalled
  /\ result2 = NotCalled

\* measure_of_concordance(tad_1, tad_2)
InitMoc ==
  /\ entry = "measure_of_concordance"
  /\ pc = "moc"
  /\ err = "none"
  /\ matrix = NoMatrix
  /\ windowproportion = 0
  /\ window_length = 0
  /\ diag = 0
  /\ i = 0
  /\ j = 0
  /\ features = <<>>
  /\ k_distances = <<>>
  /\ elbow = NotCalled
  /\ eps = 0
  /\ \/ /\ tad_1 \in TADSets
        /\ tad_2 \in TADSets
     \/ /\ tad_1 = ExampleTADSet
        /\ tad_2 = ExampleTADSet
  /\ result = NotCalled
  /\ result2 = NotCalled

Init ==
  \/ InitMain
  \/ InitFeatures
  \/ InitKDistance
  \/ InitElbow
  \/ InitJaccard
  \/ InitMoc

Next ==
  \/ MainParse
  \/ MainWindow
  \/ CfdCall
  \/ CfdDiag
  \/ CfdBack
  \/ CfdFwd
  \/ CfdReturn
  \/ KDistance
  \/ FindElbowPoint
  \/ Dbscan
  \/ JaccardCall
  \/ JaccardSwapped
  \/ MocCall
  \/ MocAgain

Spec == Init /\ [][Next]_vars

\* ---------------------------------------------------------------- claims
InRange(wl, m) == 1 <= wl /\ wl <= NRows(m)

ExpectedAt(m, wl, p) ==
  LET n == NRows(m)
      d == p \div (wl * wl)
      q == p % (wl * wl)
  IN IF d + wl > n
       THEN NpGet(m, d - (q \div wl), d - (q % wl))
       ELSE m[d + (q % wl)][d + (q \div wl)]

ExpectedFeatures(m, wl) ==
  IF wl <= 0 THEN <<>>
  ELSE [p \in 1..(NRows(m) * wl * wl) |-> ExpectedAt(m, wl, p - 1)]

C3_BackwardRevisits ==
  (pc = "cfd_back" /\ InRange(window_length, matrix)) =>
    LET cell == BackwardCell(diag, i, j)
        r == NpIndex(matrix, cell[1])
        c == NpIndex(matrix, cell[2])
    IN /\ cell[1] >= 0
       /\ cell[2] >= 0
       /\ \E d \in 0..(diag - 1) :
            /\ d + window_length <= NRows(matrix)
            /\ r \in d..(d + window_length - 1)
            /\ c \in d..(d + window_length - 1)

\* the distortion at Python index t of the current k_distances
DistortionAt(t) == <<k_distances[t + 1], k_distances[t]>>

\* C4: for a k-distance sequence of length L >= 2 find_elbow_point returns
\* the smallest index e in [1, L-1] that maximises (k[e] - k[e-1])^2; it
\* never raises, and a constant sequence gives 1.
C4_ElbowArgmax ==
  (elbow # NotCalled /\ Len(k_distances) >= 2) =>
    /\ elbow.tag = "return"
    /\ elbow.val \in 1..(Len(k_distances) - 1)
    /\ \A t \in 1..(Len(k_distances) - 1) :
         ~DistLess(DistortionAt(elbow.val), DistortionAt(t))
    /\ \A t \in 1..(elbow.val - 1) :
         DistLess(DistortionAt(t), DistortionAt(elbow.val))
    /\ (\A t \in 1..Len(k_distances) : k_distances[t] = k_distances[1]) =>
         elbow.val = 1

C4_Witness ==
  /\ entry = "find_elbow_point"
  /\ pc = "done"
  /\ k_distances = <<0, 1, 0, 1>>
  /\ elbow = Ret(1)

\* the elements of s2 within 1 of some element of s1
Matched(s1, s2) == {c \in s2 : \E b \in s1 : Abs(c - b) <= 1}

\* C5: modified_jaccard_index(S1, S2) = |M| / (|S1| + |S2| - |M|), M the
\* elements of S2 within 1 of some element of S1, each counted once; 0 when
\* the denominator is 0; {10,20,30} against {11,20,31} scores 1.
C5_JaccardValue ==
  (entry = "modified_jaccard_index" /\ result # NotCalled) =>
    LET m == Cardinality(Matched(tad_1, tad_2))
        u == Cardinality(tad_1) + Cardinality(tad_2) - m
    IN /\ result.tag = "return"
       /\ result.val[2] > 0
       /\ u = 0 => result.val[1] = 0
       /\ u # 0 => result.val[1] * u = m * result.val[2]
       /\ (tad_1 = ExampleSet1 /\ tad_2 = ExampleSet2) => result.val = <<1, 1>>

C5_Witness ==
  /\ entry = "modified_jaccard_index"
  /\ tad_1 = ExampleSet1
  /\ tad_2 = ExampleSet2
  /\ result = Ret(<<1, 1>>)

\* C6: modified_jaccard_index is directional: some boundary sets S1, S2
\* give modified_jaccard_index(S1, S2) # modified_jaccard_index(S2, S1);
\* the two directions of a call differ exactly when the number of tad_2
\* elements near tad_1 differs from the number of tad_1 elements near tad_2.
C6_Directional ==
  (entry = "modified_jaccard_index" /\ pc = "done") =>
    /\ (result # result2) <=>
         (Cardinality(Matched(tad_1, tad_2)) # Cardinality(Matched(tad_2, tad_1)))
    /\ \E s1 \in SUBSET Boundaries : \E s2 \in SUBSET Boundaries :
         modified_jaccard_index(s1, s2) # modified_jaccard_index(s2, s1)

C6_Witness ==
  /\ entry = "modified_jaccard_index"
  /\ pc = "done"
  /\ tad_1 = {1}
  /\ tad_2 = {0, 1, 2}
  /\ result = Ret(<<3, 1>>)
  /\ result2 = Ret(<<1, 3>>)

SeqRange(s) == {s[t] : t \in 1..Len(s)}

FracAdd(x, y) == Frac(x[1] * y[2] + y[1] * x[2], x[2] * y[2])

\* |t1[a] & t2[b]|^2 / (|t1[a]| * |t2[b]| - 1)
MocTerm(t1, t2, a, b) ==
  LET common_bins == Cardinality(SeqRange(t1[a]) \cap SeqRange(t2[b]))
  IN Frac(common_bins * common_bins, Len(t1[a]) * Len(t2[b]) - 1)

\* the sum of the terms of the first n pairs, pairs counted row by row
RECURSIVE MocSum(_, _, _)
MocSum(t1, t2, n) ==
  IF n = 0 THEN <<0, 1>>
  ELSE FracAdd(MocSum(t1, t2, n - 1),
               MocTerm(t1, t2, ((n - 1) \div Len(t2)) + 1, ((n - 1) % Len(t2)) + 1))

MocValue(t1, t2) ==
  LET sum_term == MocSum(t1, t2, Len(t1) * Len(t2))
  IN Frac(sum_term[1], sum_term[2] * (Len(t1) * Len(t2) - 1))

MocDefined(t1, t2) ==
  /\ Len(t1) * Len(t2) > 1
  /\ \A a \in 1..Len(t1) : \A b \in 1..Len(t2) : Len(t1[a]) * Len(t2[b]) # 1

\* C7: with n1 * n2 > 1 and no pair of TADs both of size 1,
\* measure_of_concordance returns (1 / (n1*n2 - 1)) times the sum over all
\* pairs of |tad_1[i] & tad_2[j]|^2 / (|tad_1[i]| * |tad_2[j]| - 1), and a
\* second call on the same inputs returns the same value.
C7_MocValue ==
  (entry = "measure_of_concordance" /\ pc = "done" /\ MocDefined(tad_1, tad_2)) =>
    /\ result = Ret(MocValue(tad_1, tad_2))
    /\ result2 = result

\* C8: create_feature_data with window_length < 1 never returns a feature
\* sequence; it fails with an invalid-parameter error.
C8_FailFast ==
  (pc = "cfd_return" => window_length >= 1)
    /\ (entry = "create_feature_data" /\ pc = "done" => window_length >= 1)

\* C9: a k-distance series of fewer than 2 elements ends in an explicit
\* insufficient-data error, no elbow index is returned and main does not
\* reach the DBSCAN step.
C9_InsufficientData ==
  (elbow # NotCalled /\ Len(k_distances) < 2) =>
    /\ elbow = Raise("InsufficientDataError")
    /\ pc = "raised"
    /\ err = "InsufficientDataError"

\* C10: the value modified_jaccard_index returns lies in [0, 1].
C10_UnitInterval ==
  (entry = "modified_jaccard_index" /\ result # NotCalled) =>
    /\ result.tag = "return"
    /\ 0 <= result.val[1]
    /\ result.val[1] <= result.val[2]

====
